---- MODULE Spec2Model ----
(***************************************************************************)
(* Model of src/main.py: the Flask adapter (require_api_key, parse_pdf,    *)
(* parse_pdf_direct), the tool parse_pdf_from_url and the agent loop       *)
(* run_pdf_agent.  One HTTP request is followed from its arrival to its    *)
(* response; the model provider and the PDF fetch are external and answer  *)
(* nondeterministically.                                                   *)
(***************************************************************************)
EXTENDS Integers, Sequences, FiniteSets, TLC

VARIABLES
    API_KEY,            \* main.py:16, configured secret (a string)
    pc,                 \* position of the request in the code
    endpoint,           \* route of the request being served
    auth_header,        \* request.headers.get('Authorization')
    data,               \* what request.get_json() yields
    max_iterations,     \* argument of run_pdf_agent
    iteration,          \* main.py:125
    response,           \* main.py:131 / 152, the last model response
    partIdx,            \* position of the for loop of main.py:135
    has_function_call,  \* main.py:134
    result,             \* main.py:148, the tool result
    outcome,            \* how run_pdf_agent ended: returned text or raised
    httpStatus,         \* status code of the HTTP response
    httpBody,           \* keys of the JSON body of the HTTP response
    httpTag,            \* value of the body's "status" field, if any
    agentInvoked,       \* history: run_pdf_agent was called
    sends,              \* history: chat.send_message calls issued
    promptSends,        \* history: sends of user_prompt (main.py:131)
    toolSends,          \* history: sends of a function response (main.py:152)
    toolCalls,          \* history: tool_functions[fn_name](**fn_args) calls
    toolExecs,          \* history: tool calls that returned a result
    sendFailed,         \* history: a send_message call raised
    firstNoCall,        \* history: the first response had no tool-call part
    firstReqTool,       \* history: the first response requested the tool
    stubSameCall,       \* history: every send so far was answered by the
                        \* same single request for the registered tool
    onlyUnregistered,   \* history: every answer to a prompt so far held a
                        \* function call and none for a registered tool
    text,               \* main.py:180, the argument of parse_response
    parsed              \* main.py:194-199, what parse_response returns

vars == <<API_KEY, pc, endpoint, auth_header, data, max_iterations, iteration,
          response, partIdx, has_function_call, result, outcome, httpStatus,
          httpBody, httpTag, agentInvoked, sends, promptSends, toolSends,
          toolCalls, toolExecs, sendFailed, firstNoCall, firstReqTool,
          stubSameCall, onlyUnregistered, text, parsed>>

agentVars == <<max_iterations, iteration, response, partIdx,
               has_function_call, result, outcome, agentInvoked, sends,
               promptSends, toolSends, toolCalls, toolExecs, sendFailed,
               firstNoCall, firstReqTool, stubSameCall, onlyUnregistered>>

parseVars == <<text, parsed>>

reqVars == <<API_KEY, endpoint, auth_header, data>>

httpVars == <<httpStatus, httpBody, httpTag>>

----------------------------------------------------------------------------
(* Bounds of the model *)

MaxIter == 3        \* largest max_iterations a request body carries
MaxParts == 2       \* most parts in one model response

(* Program constants *)

DefaultMaxIterations == 10      \* main.py:223 and main.py:112
BearerLen == 7                  \* main.py:40, auth_header[7:]

None == "None"      \* Python None / an absent value

----------------------------------------------------------------------------
(* Strings of the authentication check are sequences of characters *)

BearerPrefix == <<"B", "e", "a", "r", "e", "r", " ">>

StartsWith(s, p) == /\ Len(s) >= Len(p)
                    /\ SubSeq(s, 1, Len(p)) = p

\* the configured secrets considered: empty, plain, and one that itself
\* begins with "Bearer "
ApiKeys == { <<>>, <<"k">>, BearerPrefix \o <<"k">> }

\* a header is absent, or present with a value
NoHeader == [present |-> FALSE, value |-> <<>>]

Header(v) == [present |-> TRUE, value |-> v]

Headers == {NoHeader} \cup { Header(k) : k \in ApiKeys }
           \cup { Header(BearerPrefix \o k) : k \in ApiKeys }

\* main.py:39-42
ProvidedKey(h) == IF StartsWith(h.value, BearerPrefix)
                  THEN SubSeq(h.value, BearerLen + 1, Len(h.value))
                  ELSE h.value

\* main.py:33, `not auth_header`: None or the empty string
HeaderMissing(h) == ~h.present \/ h.value = <<>>

AuthStatus_NoCompare(h, key) ==
    IF HeaderMissing(h) THEN 401 ELSE 0

\* main.py:31-50: the status require_api_key answers with, 0 when it calls f
AuthStatus(h, key) ==
    IF HeaderMissing(h) THEN 401
    ELSE IF ProvidedKey(h) # key THEN 403
    ELSE 0

----------------------------------------------------------------------------
(* Request bodies: what request.get_json() yields *)

\* kind "invalid": get_json raises; "falsy": null, [], 0, ""; "nonobject":
\* a non-empty JSON array, string or number; "object": a JSON object, whose
\* fields are None when absent (fields the handlers never read are left out:
\* an object holding only such fields is answered like one lacking the
\* required field)
MaxIterValues ==
    { [t |-> "absent", n |-> 0], [t |-> "nan", n |-> 0] }
    \cup { [t |-> "int", n |-> i] : i \in -1 .. MaxIter }

AgentBodies ==
    [kind : {"object"},
     user_prompt : {None, "", "p"},
     system_prompt : {None, "s"},
     max_iterations : MaxIterValues]

DirectBodies ==
    [kind : {"object"},
     pdf_url : {None, "", "u"},
     write_images : {None, "true"}]

OtherBodies == { [kind |-> "invalid"], [kind |-> "falsy"],
                 [kind |-> "nonobject"] }

\* `not data` at main.py:218 / 271
EmptyObject(d) ==
    /\ d.kind = "object"
    /\ IF "user_prompt" \in DOMAIN d
       THEN /\ d.user_prompt = None
            /\ d.system_prompt = None
            /\ d.max_iterations.t = "absent"
       ELSE /\ d.pdf_url = None
            /\ d.write_images = None

NotData(d) == d.kind = "falsy" \/ EmptyObject(d)

\* Python truthiness of a field fetched with data.get
Falsy(v) == v = None \/ v = ""

----------------------------------------------------------------------------
(* Model responses: ordered sequences of parts *)

ToolName == "parse_pdf_from_url"

\* main.py:85
tool_functions == {ToolName}

SentinelText == <<"Max iterations reached">>      \* main.py:172

\* how run_pdf_agent ends: it returns a text or raises an exception
Returned(t) == [kind |-> "return", text |-> t, err |-> None]

Raised(e) == [kind |-> "raise", text |-> <<>>, err |-> e]

Running == [kind |-> "none", text |-> <<>>, err |-> None]

\* the model may say anything, the sentinel sentence included
TextVals == {"a", "Max iterations reached"}

\* the keyword sets a function call may carry: none, the required one, and
\* the required one with one the tool does not know
ArgSets == { {}, {"pdf_url"}, {"pdf_url", "zz"} }

TextParts == [kind : {"text"}, text : TextVals]

CallParts == [kind : {"call"}, name : {ToolName}, args : ArgSets]
             \cup { [kind |-> "call", name |-> "other_tool", args |-> {}] }

Parts == TextParts \cup CallParts

\* a response holds at least one part
Responses == UNION { [1 .. n -> Parts] : n \in 1 .. MaxParts }

\* main.py:136
IsFunctionCall(part) == part.kind = "call"

HasCall(r) == \E i \in 1 .. Len(r) : IsFunctionCall(r[i])

\* main.py:147
Registered(part) == part.name \in tool_functions

RequestsTool(r) == \E i \in 1 .. Len(r) :
                      IsFunctionCall(r[i]) /\ Registered(r[i])

\* main.py:55 and 148: the keyword arguments bind to the signature
\* (pdf_url, write_images=False) or the call raises TypeError
ArgsBind(args) == "pdf_url" \in args /\ args \subseteq {"pdf_url", "write_images"}

\* the text parts of a response, in order
RECURSIVE TextOf(_)
TextOf(r) ==
    IF r = <<>> THEN <<>>
    ELSE IF Head(r).kind = "text" THEN <<Head(r).text>> \o TextOf(Tail(r))
    ELSE TextOf(Tail(r))

\* response.text (main.py:166, 170): the joined text of a response made of
\* text parts; on a response holding a function call the accessor either
\* raises ValueError or yields the text parts, depending on the library build
TextOutcomes(r) ==
    IF HasCall(r)
    THEN { Returned(TextOf(r)), Raised("ValueError") }
    ELSE { Returned(TextOf(r)) }

\* main.py:70-81: parse_pdf_from_url returns one of two dicts
ToolStatuses == {"success", "error1"}

ToolResultKeys == {"status", "text_content", "message"}

\* the request every send is answered with by the same-call stub
SameCall == <<[kind |-> "call", name |-> ToolName, args |-> {"pdf_url"}]>>

----------------------------------------------------------------------------
(* parse_response, main.py:180-199 *)

(* A text is a sequence of tokens: the two literal markers "Subject:" and   *)
(* "Content:" (which cannot overlap), the whitespace characters blank and  *)
(* newline, and one other character.  The url and time fields of the       *)
(* result depend on neither marker and are left out.                       *)

SUBJ == "Subject:"
CONT == "Content:"
SP == " "
NL == "nl"
CHR == "x"

Tokens == {SUBJ, CONT, SP, NL, CHR}

\* \s of the patterns and the characters str.strip() removes
IsSpace(c) == c \in {SP, NL}

Min(S) == CHOOSE m \in S : \A n \in S : m <= n

Max(S) == CHOOSE m \in S : \A n \in S : m >= n

RECURSIVE LStrip(_)
LStrip(s) == IF s # <<>> /\ IsSpace(Head(s)) THEN LStrip(Tail(s)) ELSE s

RECURSIVE RStrip(_)
RStrip(s) == IF s # <<>> /\ IsSpace(s[Len(s)])
             THEN RStrip(SubSeq(s, 1, Len(s) - 1))
             ELSE s

Strip_LeftOnly(s) == LStrip(s)

\* str.strip()
Strip(s) == RStrip(LStrip(s))

\* the length of the run of whitespace that starts at position i
RECURSIVE SpaceRun(_, _)
SpaceRun(s, i) == IF i <= Len(s) /\ IsSpace(s[i])
                  THEN 1 + SpaceRun(s, i + 1)
                  ELSE 0

NoMatch == [found |-> FALSE, group |-> <<>>]

Match(g) == [found |-> TRUE, group |-> g]

\* main.py:185, 188: re.search(r'Content:\s*(.+)', text, re.DOTALL).  The
\* leftmost marker followed by at least one character matches; \s* takes the
\* whole whitespace run and gives one character back when nothing else is
\* left for (.+), which runs to the end of the text.
ContentSearch(s) ==
    LET starts == { i \in 1 .. Len(s) : s[i] = CONT /\ i < Len(s) } IN
    IF starts = {} THEN NoMatch
    ELSE LET i == Min(starts)
             k == SpaceRun(s, i + 1)
             from == IF i + k < Len(s) THEN i + k + 1 ELSE Len(s)
         IN  Match(SubSeq(s, from, Len(s)))

\* the lookahead (?=\n\nContent:) holds at position j
LookAhead(s, j) == /\ j + 2 <= Len(s)
                   /\ s[j] = NL
                   /\ s[j + 1] = NL
                   /\ s[j + 2] = CONT

\* the pattern of main.py:184 tried at the marker at position i: the pairs
\* <<k, e>> of a number k of whitespace characters taken by \s* and a last
\* position e of the group (.+?), at least one character long, after which
\* the lookahead holds
SubjectFits(s, i) ==
    { ke \in (0 .. SpaceRun(s, i + 1)) \X (1 .. Len(s)) :
         /\ ke[2] >= i + ke[1] + 1
         /\ LookAhead(s, ke[2] + 1) }

\* main.py:184, 187: re.search(r'Subject:\s*(.+?)(?=\n\nContent:)', text,
\* re.DOTALL).  The leftmost marker at which the pattern fits matches; the
\* greedy \s* keeps as much as it can and the lazy group ends as early as it
\* can.
SubjectSearch(s) ==
    LET starts == { i \in 1 .. Len(s) :
                       s[i] = SUBJ /\ SubjectFits(s, i) # {} } IN
    IF starts = {} THEN NoMatch
    ELSE LET i == Min(starts)
             k == Max({ ke[1] : ke \in SubjectFits(s, i) })
             e == Min({ ke[2] : ke \in { f \in SubjectFits(s, i) : f[1] = k } })
         IN  Match(SubSeq(s, i + k + 1, e))

parse_response_StripsFallback(t) ==
    [done |-> TRUE,
     subject |-> IF SubjectSearch(t).found
                 THEN Strip(SubjectSearch(t).group) ELSE <<>>,
     content |-> IF ContentSearch(t).found
                 THEN Strip(ContentSearch(t).group) ELSE Strip(t)]

\* main.py:180-199, the subject and content fields
parse_response(t) ==
    [done |-> TRUE,
     subject |-> IF SubjectSearch(t).found
                 THEN Strip(SubjectSearch(t).group) ELSE <<>>,
     content |-> IF ContentSearch(t).found
                 THEN Strip(ContentSearch(t).group) ELSE t]

\* Bounds of the texts parse_response is applied to
MaxLen == 5         \* longest text taken token by token
MaxPre == 1         \* longest text before "Subject: S\n\nContent: C"
MaxSubj == 2        \* longest S
MaxCont == 1        \* longest C

TextsUpTo(n) == UNION { [1 .. m -> Tokens] : m \in 0 .. n }

\* the text "Subject: S\n\nContent: C"
Framed(subj, cont) == <<SUBJ, SP>> \o subj \o <<NL, NL, CONT, SP>> \o cont

FramedTexts == { pre \o Framed(subj, cont) :
                    pre \in TextsUpTo(MaxPre),
                    subj \in TextsUpTo(MaxSubj),
                    cont \in TextsUpTo(MaxCont) }

ParseInputs == TextsUpTo(MaxLen) \cup FramedTexts

\* what `parsed` holds before parse_response has run
Unparsed == [done |-> FALSE, subject |-> <<>>, content |-> <<>>]

----------------------------------------------------------------------------
Init ==
    /\ API_KEY \in ApiKeys
    /\ pc = "idle"
    /\ endpoint = None
    /\ auth_header = NoHeader
    /\ data = [kind |-> "falsy"]
    /\ max_iterations = [t |-> "absent", n |-> 0]
    /\ iteration = 0
    /\ response = <<>>
    /\ partIdx = 0
    /\ has_function_call = FALSE
    /\ result = None
    /\ outcome = Running
    /\ httpStatus = 0
    /\ httpBody = {}
    /\ httpTag = None
    /\ agentInvoked = FALSE
    /\ sends = 0
    /\ promptSends = 0
    /\ toolSends = 0
    /\ toolCalls = 0
    /\ toolExecs = 0
    /\ sendFailed = FALSE
    /\ firstNoCall = FALSE
    /\ firstReqTool = FALSE
    /\ stubSameCall = TRUE
    /\ onlyUnregistered = TRUE
    /\ text = <<>>
    /\ parsed = Unparsed

\* an HTTP response is produced
Reply(status, keys, tag) ==
    /\ httpStatus' = status
    /\ httpBody' = keys
    /\ httpTag' = tag
    /\ pc' = "responded"

\* a POST arrives at one of the two protected routes
Receive ==
    /\ pc = "idle"
    /\ \E e \in {"/api/parse-pdf", "/api/parse-pdf-direct"} :
          /\ endpoint' = e
          /\ data' \in (IF e = "/api/parse-pdf" THEN AgentBodies
                        ELSE DirectBodies) \cup OtherBodies
    /\ auth_header' \in Headers
    /\ pc' = "auth"
    /\ UNCHANGED <<parseVars, API_KEY, agentVars, httpVars>>

\* main.py:28-52
RequireApiKey ==
    /\ pc = "auth"
    /\ IF AuthStatus(auth_header, API_KEY) # 0
       THEN Reply(AuthStatus(auth_header, API_KEY), {"error", "message"}, None)
       ELSE pc' = "handler" /\ UNCHANGED httpVars
    /\ UNCHANGED <<parseVars, reqVars, agentVars>>


\* main.py:213-229: what parse_pdf answers before it runs the agent; status 0
\* when it goes on to call run_pdf_agent.  An exception raised by get_json
\* or by data.get on a value that is no dict reaches the handler of
\* main.py:251-260.
ParsePdfPrecheck(d) ==
    IF d.kind = "invalid"
    THEN [status |-> 500, keys |-> {"status", "message", "type"}, tag |-> "error"]
    ELSE IF NotData(d)
    THEN [status |-> 400, keys |-> {"error"}, tag |-> None]
    ELSE IF d.kind = "nonobject"
    THEN [status |-> 500, keys |-> {"status", "message", "type"}, tag |-> "error"]
    ELSE IF Falsy(d.user_prompt)
    THEN [status |-> 400, keys |-> {"error"}, tag |-> None]
    ELSE [status |-> 0, keys |-> {}, tag |-> None]

\* main.py:223: data.get('max_iterations', 10)
MaxIterationsOf(d) ==
    IF d.max_iterations.t = "absent"
    THEN [t |-> "int", n |-> DefaultMaxIterations]
    ELSE d.max_iterations

\* main.py:209-237: parse_pdf up to the call of run_pdf_agent, and
\* main.py:116-125: the start of run_pdf_agent
ParsePdfStart ==
    /\ pc = "handler"
    /\ endpoint = "/api/parse-pdf"
    /\ LET pre == ParsePdfPrecheck(data) IN
         IF pre.status # 0
         THEN /\ Reply(pre.status, pre.keys, pre.tag)
              /\ UNCHANGED agentVars
         ELSE /\ pc' = "loop"
              /\ agentInvoked' = TRUE
              /\ max_iterations' = MaxIterationsOf(data)
              /\ iteration' = 0
              /\ UNCHANGED <<httpVars, response, partIdx, has_function_call,
                             result, outcome, sends, promptSends, toolSends,
                             toolCalls, toolExecs, sendFailed, firstNoCall,
                             firstReqTool, stubSameCall, onlyUnregistered>>
    /\ UNCHANGED <<parseVars, reqVars>>

\* main.py:264-288: parse_pdf_direct, the call of parse_pdf_from_url included
ParsePdfDirect ==
    /\ pc = "handler"
    /\ endpoint = "/api/parse-pdf-direct"
    /\ IF data.kind = "invalid"
       THEN Reply(500, {"status", "message"}, "error") /\ UNCHANGED result
       ELSE IF NotData(data)
       THEN Reply(400, {"error"}, None) /\ UNCHANGED result
       ELSE IF data.kind = "nonobject"
       THEN Reply(500, {"status", "message"}, "error") /\ UNCHANGED result
       ELSE IF Falsy(data.pdf_url)
       THEN Reply(400, {"error"}, None) /\ UNCHANGED result
       ELSE \E st \in ToolStatuses :
               /\ result' = st
               /\ Reply(200, ToolResultKeys, st)
    /\ UNCHANGED <<parseVars, reqVars, max_iterations, iteration, response, partIdx,
                   has_function_call, outcome, agentInvoked,
                   onlyUnregistered, sends,
                   promptSends, toolSends, toolCalls, toolExecs, sendFailed,
                   firstNoCall, firstReqTool, stubSameCall>>

----------------------------------------------------------------------------
(* run_pdf_agent, main.py:112-178 *)

LoopGuard_OffByOne(it, max) == it <= max

LoopGuard_Inverted(it, max) == it > max

\* main.py:127
LoopGuard(it, max) == it < max

\* main.py:127 with a max_iterations that is no number: `<` raises TypeError
AgentTypeError ==
    /\ pc = "loop"
    /\ max_iterations.t = "nan"
    /\ outcome' = Raised("TypeError")
    /\ pc' = "agent_done"
    /\ UNCHANGED <<parseVars, reqVars, httpVars, max_iterations, iteration, response,
                   partIdx, has_function_call, result, agentInvoked,
                   onlyUnregistered, sends,
                   promptSends, toolSends, toolCalls, toolExecs, sendFailed,
                   firstNoCall, firstReqTool, stubSameCall>>

\* main.py:127 and 172: the loop is over
AgentExhausted ==
    /\ pc = "loop"
    /\ max_iterations.t = "int"
    /\ ~LoopGuard(iteration, max_iterations.n)
    /\ outcome' = Returned(SentinelText)
    /\ pc' = "agent_done"
    /\ UNCHANGED <<parseVars, reqVars, httpVars, max_iterations, iteration, response,
                   partIdx, has_function_call, result, agentInvoked,
                   onlyUnregistered, sends,
                   promptSends, toolSends, toolCalls, toolExecs, sendFailed,
                   firstNoCall, firstReqTool, stubSameCall>>

\* main.py:127-134: one more iteration, the prompt is sent and answered
SendPrompt ==
    /\ pc = "loop"
    /\ max_iterations.t = "int"
    /\ LoopGuard(iteration, max_iterations.n)
    /\ iteration' = iteration + 1
    /\ sends' = sends + 1
    /\ promptSends' = promptSends + 1
    /\ \E r \in Responses :
          /\ response' = r
          /\ firstNoCall' = IF sends = 0 THEN ~HasCall(r) ELSE firstNoCall
          /\ firstReqTool' = IF sends = 0 THEN RequestsTool(r) ELSE firstReqTool
          /\ stubSameCall' = (stubSameCall /\ r = SameCall)
          /\ onlyUnregistered' = (/\ onlyUnregistered
                                   /\ HasCall(r)
                                   /\ ~RequestsTool(r))
    /\ has_function_call' = FALSE
    /\ partIdx' = 1
    /\ pc' = "scan"
    /\ UNCHANGED <<parseVars, reqVars, httpVars, max_iterations, result, outcome,
                   agentInvoked, toolSends, toolCalls, toolExecs, sendFailed>>

SendPromptFails_Retry ==
    /\ pc = "loop"
    /\ max_iterations.t = "int"
    /\ LoopGuard(iteration, max_iterations.n)
    /\ iteration' = iteration + 1
    /\ sends' = sends + 1
    /\ promptSends' = promptSends + 1
    /\ sendFailed' = TRUE
    /\ stubSameCall' = FALSE
    /\ UNCHANGED <<parseVars, reqVars, httpVars, pc, max_iterations, response, partIdx,
                   has_function_call, result, outcome, agentInvoked,
                   onlyUnregistered,
                   toolSends, toolCalls, toolExecs, firstNoCall,
                   firstReqTool>>

\* main.py:131 raises: the exception leaves the loop (main.py:174-178)
SendPromptFails ==
    /\ pc = "loop"
    /\ max_iterations.t = "int"
    /\ LoopGuard(iteration, max_iterations.n)
    /\ iteration' = iteration + 1
    /\ sends' = sends + 1
    /\ promptSends' = promptSends + 1
    /\ sendFailed' = TRUE
    /\ stubSameCall' = FALSE
    /\ outcome' = Raised("SendError")
    /\ pc' = "agent_done"
    /\ UNCHANGED <<parseVars, reqVars, httpVars, max_iterations, response, partIdx,
                   has_function_call, result, agentInvoked,
                   onlyUnregistered, toolSends,
                   toolCalls, toolExecs, firstNoCall, firstReqTool>>


CurrentPart == response[partIdx]

Scanning == pc = "scan" /\ partIdx <= Len(response)

\* main.py:135-136: a part that is no function call is passed over
ScanText ==
    /\ Scanning
    /\ ~IsFunctionCall(CurrentPart)
    /\ partIdx' = partIdx + 1
    /\ UNCHANGED <<parseVars, reqVars, httpVars, pc, max_iterations, iteration, response,
                   has_function_call, result, outcome, agentInvoked,
                   onlyUnregistered, sends,
                   promptSends, toolSends, toolCalls, toolExecs, sendFailed,
                   firstNoCall, firstReqTool, stubSameCall>>

\* main.py:136-147: a function call naming no registered tool sets the flag
\* and the scan goes on
ScanUnregistered ==
    /\ Scanning
    /\ IsFunctionCall(CurrentPart)
    /\ ~Registered(CurrentPart)
    /\ has_function_call' = TRUE
    /\ partIdx' = partIdx + 1
    /\ UNCHANGED <<parseVars, reqVars, httpVars, pc, max_iterations, iteration, response,
                   result, outcome, agentInvoked,
                   onlyUnregistered, sends, promptSends,
                   toolSends, toolCalls, toolExecs, sendFailed, firstNoCall,
                   firstReqTool, stubSameCall>>

\* main.py:136-149 and 55-81: the registered tool is called with the model's
\* arguments and returns a result dict, whatever happens inside it
ToolExec ==
    /\ Scanning
    /\ IsFunctionCall(CurrentPart)
    /\ Registered(CurrentPart)
    /\ ArgsBind(CurrentPart.args)
    /\ has_function_call' = TRUE
    /\ toolCalls' = toolCalls + 1
    /\ toolExecs' = toolExecs + 1
    /\ result' \in ToolStatuses
    /\ pc' = "send_result"
    /\ UNCHANGED <<parseVars, reqVars, httpVars, max_iterations, iteration, response,
                   partIdx, outcome, agentInvoked,
                   onlyUnregistered, sends, promptSends,
                   toolSends, sendFailed, firstNoCall, firstReqTool,
                   stubSameCall>>

\* main.py:148: the arguments do not bind to parse_pdf_from_url's signature;
\* the TypeError is raised at the call, outside the tool's own try block
ToolCallRaises ==
    /\ Scanning
    /\ IsFunctionCall(CurrentPart)
    /\ Registered(CurrentPart)
    /\ ~ArgsBind(CurrentPart.args)
    /\ has_function_call' = TRUE
    /\ toolCalls' = toolCalls + 1
    /\ outcome' = Raised("TypeError")
    /\ pc' = "agent_done"
    /\ UNCHANGED <<parseVars, reqVars, httpVars, max_iterations, iteration, response,
                   partIdx, result, agentInvoked,
                   onlyUnregistered, sends, promptSends,
                   toolSends, toolExecs, sendFailed, firstNoCall,
                   firstReqTool, stubSameCall>>

SendToolResult_NoReturn ==
    /\ pc = "send_result"
    /\ sends' = sends + 1
    /\ toolSends' = toolSends + 1
    /\ \E r \in Responses :
          /\ response' = r
          /\ stubSameCall' = (stubSameCall /\ r = SameCall)
    /\ pc' = "loop"
    /\ UNCHANGED <<parseVars, reqVars, httpVars, max_iterations, iteration, partIdx,
                   has_function_call, result, outcome, agentInvoked,
                   onlyUnregistered,
                   promptSends, toolCalls, toolExecs, sendFailed, firstNoCall,
                   firstReqTool>>

SendToolResult_KeepsGoing ==
    /\ pc = "send_result"
    /\ sends' = sends + 1
    /\ toolSends' = toolSends + 1
    /\ \E r \in Responses :
          /\ response' = r
          /\ stubSameCall' = (stubSameCall /\ r = SameCall)
          /\ outcome' \in TextOutcomes(r)
    /\ pc' = "loop"
    /\ UNCHANGED <<parseVars, reqVars, httpVars, max_iterations, iteration,
                   partIdx, has_function_call, result, agentInvoked,
                   onlyUnregistered, promptSends, toolCalls, toolExecs,
                   sendFailed, firstNoCall, firstReqTool>>

\* main.py:152-166: the result is sent back and the text of the answer is
\* returned
SendToolResult ==
    /\ pc = "send_result"
    /\ sends' = sends + 1
    /\ toolSends' = toolSends + 1
    /\ \E r \in Responses :
          /\ response' = r
          /\ stubSameCall' = (stubSameCall /\ r = SameCall)
          /\ outcome' \in TextOutcomes(r)
    /\ pc' = "agent_done"
    /\ UNCHANGED <<parseVars, reqVars, httpVars, max_iterations, iteration, partIdx,
                   has_function_call, result, agentInvoked,
                   onlyUnregistered, promptSends,
                   toolCalls, toolExecs, sendFailed, firstNoCall,
                   firstReqTool>>

\* main.py:152 raises
SendToolResultFails ==
    /\ pc = "send_result"
    /\ sends' = sends + 1
    /\ toolSends' = toolSends + 1
    /\ sendFailed' = TRUE
    /\ stubSameCall' = FALSE
    /\ outcome' = Raised("SendError")
    /\ pc' = "agent_done"
    /\ UNCHANGED <<parseVars, reqVars, httpVars, max_iterations, iteration, response,
                   partIdx, has_function_call, result, agentInvoked,
                   onlyUnregistered,
                   promptSends, toolCalls, toolExecs, firstNoCall,
                   firstReqTool>>

ReturnText_NoReturn ==
    /\ pc = "scan"
    /\ partIdx > Len(response)
    /\ ~has_function_call
    /\ pc' = "loop"
    /\ UNCHANGED <<parseVars, reqVars, httpVars, max_iterations, iteration, response,
                   partIdx, has_function_call, result, outcome, agentInvoked,
                   onlyUnregistered,
                   sends, promptSends, toolSends, toolCalls, toolExecs,
                   sendFailed, firstNoCall, firstReqTool, stubSameCall>>

\* main.py:169-170: all parts scanned and none was a function call
ReturnText ==
    /\ pc = "scan"
    /\ partIdx > Len(response)
    /\ ~has_function_call
    /\ outcome' \in TextOutcomes(response)
    /\ pc' = "agent_done"
    /\ UNCHANGED <<parseVars, reqVars, httpVars, max_iterations, iteration, response,
                   partIdx, has_function_call, result, agentInvoked,
                   onlyUnregistered, sends,
                   promptSends, toolSends, toolCalls, toolExecs, sendFailed,
                   firstNoCall, firstReqTool, stubSameCall>>

\* main.py:169 and 127: function calls were seen and none was executed; back
\* to the loop test
NextIteration ==
    /\ pc = "scan"
    /\ partIdx > Len(response)
    /\ has_function_call
    /\ pc' = "loop"
    /\ UNCHANGED <<parseVars, reqVars, httpVars, max_iterations, iteration, response,
                   partIdx, has_function_call, result, outcome, agentInvoked,
                   onlyUnregistered,
                   sends, promptSends, toolSends, toolCalls, toolExecs,
                   sendFailed, firstNoCall, firstReqTool, stubSameCall>>

\* main.py:239-249: run_pdf_agent returned, parse_pdf answers 200
ParsePdfSuccess ==
    /\ pc = "agent_done"
    /\ outcome.kind = "return"
    /\ Reply(200, {"status", "raw_response", "parsed_response"}, "success")
    /\ UNCHANGED <<parseVars, reqVars, agentVars>>

\* main.py:251-260: run_pdf_agent raised, parse_pdf answers 500
ParsePdfError ==
    /\ pc = "agent_done"
    /\ outcome.kind = "raise"
    /\ Reply(500, {"status", "message", "type"}, "error")
    /\ UNCHANGED <<parseVars, reqVars, agentVars>>

Next ==
    \/ Receive
    \/ RequireApiKey
    \/ ParsePdfStart
    \/ ParsePdfDirect
    \/ AgentTypeError
    \/ AgentExhausted
    \/ SendPrompt
    \/ SendPromptFails
    \/ ScanText
    \/ ScanUnregistered
    \/ ToolExec
    \/ ToolCallRaises
    \/ SendToolResult
    \/ SendToolResultFails
    \/ ReturnText
    \/ NextIteration
    \/ ParsePdfSuccess
    \/ ParsePdfError

Spec == Init /\ [][Next]_vars

\* run_pdf_agent alone: an authenticated request with a user prompt (and the
\* default system prompt, which the loop never reads) has reached parse_pdf
InitAgent ==
    /\ API_KEY = <<"k">>
    /\ pc = "handler"
    /\ endpoint = "/api/parse-pdf"
    /\ auth_header = Header(<<"k">>)
    /\ data \in { d \in AgentBodies :
                      d.user_prompt = "p" /\ d.system_prompt = None }
    /\ max_iterations = [t |-> "absent", n |-> 0]
    /\ iteration = 0
    /\ response = <<>>
    /\ partIdx = 0
    /\ has_function_call = FALSE
    /\ result = None
    /\ outcome = Running
    /\ httpStatus = 0
    /\ httpBody = {}
    /\ httpTag = None
    /\ agentInvoked = FALSE
    /\ sends = 0
    /\ promptSends = 0
    /\ toolSends = 0
    /\ toolCalls = 0
    /\ toolExecs = 0
    /\ sendFailed = FALSE
    /\ firstNoCall = FALSE
    /\ firstReqTool = FALSE
    /\ stubSameCall = TRUE
    /\ onlyUnregistered = TRUE
    /\ text = <<>>
    /\ parsed = Unparsed

NextAgent ==
    \/ ParsePdfStart
    \/ AgentTypeError
    \/ AgentExhausted
    \/ SendPrompt
    \/ SendPromptFails
    \/ ScanText
    \/ ScanUnregistered
    \/ ToolExec
    \/ ToolCallRaises
    \/ SendToolResult
    \/ SendToolResultFails
    \/ ReturnText
    \/ NextIteration
    \/ ParsePdfSuccess
    \/ ParsePdfError

\* the code is synchronous and single-threaded: when every send and every
\* tool execution returns or fails in finite time, the step the request is
\* at is eventually taken
FairAgent == InitAgent /\ [][NextAgent]_vars /\ WF_vars(NextAgent)

\* parse_response applied to one text, outside any request
InitParse ==
    /\ API_KEY = <<"k">>
    /\ pc = "parse"
    /\ endpoint = None
    /\ auth_header = NoHeader
    /\ data = [kind |-> "falsy"]
    /\ max_iterations = [t |-> "absent", n |-> 0]
    /\ iteration = 0
    /\ response = <<>>
    /\ partIdx = 0
    /\ has_function_call = FALSE
    /\ result = None
    /\ outcome = Running
    /\ httpStatus = 0
    /\ httpBody = {}
    /\ httpTag = None
    /\ agentInvoked = FALSE
    /\ sends = 0
    /\ promptSends = 0
    /\ toolSends = 0
    /\ toolCalls = 0
    /\ toolExecs = 0
    /\ sendFailed = FALSE
    /\ firstNoCall = FALSE
    /\ firstReqTool = FALSE
    /\ stubSameCall = TRUE
    /\ onlyUnregistered = TRUE
    /\ text \in ParseInputs
    /\ parsed = Unparsed

\* main.py:180-199
ParseResponse ==
    /\ pc = "parse"
    /\ parsed' = parse_response(text)
    /\ pc' = "parsed"
    /\ UNCHANGED <<text, reqVars, agentVars, httpVars>>

NextParse == ParseResponse

SpecParse == InitParse /\ [][NextParse]_vars

TypeOK ==
    /\ API_KEY \in ApiKeys
    /\ pc \in {"idle", "auth", "handler", "loop", "scan", "send_result",
               "agent_done", "responded", "parse", "parsed"}
    /\ iteration \in 0 .. DefaultMaxIterations
    /\ httpStatus \in {0, 200, 400, 401, 403, 500}


----------------------------------------------------------------------------
(* Properties *)

\* run_pdf_agent runs with a numeric max_iterations of at least 1
AgentRunsWithN == /\ agentInvoked
                  /\ max_iterations.t = "int"
                  /\ max_iterations.n >= 1

AgentEnded == agentInvoked /\ outcome.kind # "none"

\* C1 as stated: with max_iterations = N >= 1, one invocation of
\* run_pdf_agent issues at most N send operations, prompt sends and
\* tool-response sends counted together.
C1_AtMostNSends == AgentRunsWithN => sends <= max_iterations.n

\* C1 amended: with max_iterations = N >= 1, one invocation issues at most N
\* prompt sends and at most one tool-response send, so at most N + 1 sends.
C1_AtMostNPlusOneSends ==
    AgentRunsWithN =>
        /\ promptSends <= max_iterations.n
        /\ toolSends <= 1
        /\ sends = promptSends + toolSends
        /\ sends <= max_iterations.n + 1

C1_Witness ==
    /\ AgentRunsWithN
    /\ max_iterations.n >= 2
    /\ sends = max_iterations.n + 1

\* C2: when every send is answered by the same request for the registered
\* tool, run_pdf_agent with max_iterations = N completes N rounds and
\* returns exactly "Max iterations reached".
C2_SameCallStubExhausts ==
    (AgentRunsWithN /\ AgentEnded /\ stubSameCall) =>
        /\ outcome = Returned(SentinelText)
        /\ iteration = max_iterations.n

\* C3: when the first response holds no tool-call part (max_iterations >= 1),
\* run_pdf_agent returns that response's text after one round: exactly one
\* send, no tool execution.
C3_PlainTextFirst ==
    firstNoCall =>
        /\ sends = 1
        /\ iteration = 1
        /\ toolCalls = 0
        /\ pc \notin {"loop", "send_result"}
        /\ AgentEnded => outcome = Returned(TextOf(response))

C3_Witness ==
    /\ firstNoCall
    /\ AgentEnded
    /\ Len(response) = 2
    /\ outcome = Returned(TextOf(response))

\* the case of C4: the first response requested the tool, the tool returned
\* success, and the answer to the tool result is plain text
C4_Case ==
    /\ AgentEnded
    /\ firstReqTool
    /\ result = "success"
    /\ toolSends >= 1
    /\ ~sendFailed
    /\ ~HasCall(response)

\* C4: in that case run_pdf_agent returns that plain text after exactly two
\* exchanges, the tool was executed exactly once, and no further iteration
\* slot was used, whatever max_iterations >= 1 is.
C4_ToolThenText ==
    C4_Case =>
        /\ outcome = Returned(TextOf(response))
        /\ sends = 2
        /\ promptSends = 1
        /\ toolExecs = 1
        /\ toolCalls = 1
        /\ iteration = 1

C4_Witness ==
    /\ C4_Case
    /\ max_iterations.n = 1
    /\ outcome = Returned(TextOf(response))
    /\ sends = 2

\* C5: a call of the registered tool never aborts the loop: whatever the
\* arguments, every call yields a result that is sent back to the model.
C5_ToolFailureNotFatal ==
    (AgentEnded /\ toolCalls > 0) =>
        /\ toolExecs = toolCalls
        /\ toolSends = toolCalls
        /\ (outcome.kind = "raise" => outcome.err # "TypeError")

\* C6: once a send has failed, no later send and no later tool call happens
\* in that invocation, the failure is what run_pdf_agent raises, and
\* /api/parse-pdf answers 500 with a body of status "error", message and type.
C6_SendFailureAborts ==
    /\ [][sendFailed => /\ sendFailed'
                        /\ sends' = sends
                        /\ toolCalls' = toolCalls
                        /\ outcome' = outcome]_vars
    /\ [](sendFailed =>
            /\ outcome = Raised("SendError")
            /\ pc \in {"agent_done", "responded"}
            /\ pc = "responded" =>
                  /\ httpStatus = 500
                  /\ httpBody = {"status", "message", "type"}
                  /\ httpTag = "error")

C6_Witness ==
    /\ sendFailed
    /\ toolSends = 1
    /\ pc = "responded"
    /\ httpStatus = 500

\* the header carries the key, bare or after "Bearer "
Presents(h, key) ==
    /\ h.present
    /\ \/ h.value = key
       \/ h.value = BearerPrefix \o key

NothingRun == ~agentInvoked /\ sends = 0 /\ toolCalls = 0

Answered(e) == pc = "responded" /\ endpoint = e

\* C7 as stated: on /api/parse-pdf a request without Authorization header is
\* answered 401 and one whose header does not match API_KEY is answered 403;
\* neither runs the agent, a model call or a tool.
C7_MissingOrWrongKey ==
    /\ (endpoint = "/api/parse-pdf" /\ pc # "idle"
        /\ ~Presents(auth_header, API_KEY)) => NothingRun
    /\ (Answered("/api/parse-pdf") /\ ~auth_header.present)
          => httpStatus = 401
    /\ (Answered("/api/parse-pdf") /\ auth_header.present
        /\ ~Presents(auth_header, API_KEY)) => httpStatus = 403

\* C7 amended: an absent or empty Authorization header is answered 401, a
\* non-empty one that does not match API_KEY is answered 403; neither runs
\* the agent, a model call or a tool.
C7_MissingOrEmptyOrWrongKey ==
    /\ (endpoint = "/api/parse-pdf" /\ pc # "idle"
        /\ ~Presents(auth_header, API_KEY)) => NothingRun
    /\ (Answered("/api/parse-pdf") /\ HeaderMissing(auth_header))
          => (httpStatus = 401 /\ NothingRun)
    /\ (Answered("/api/parse-pdf") /\ ~HeaderMissing(auth_header)
        /\ ~Presents(auth_header, API_KEY)) => httpStatus = 403

C7_Witness ==
    /\ Answered("/api/parse-pdf")
    /\ auth_header.present
    /\ auth_header.value # <<>>
    /\ ~Presents(auth_header, API_KEY)
    /\ data.kind = "object"
    /\ data.user_prompt = "p"
    /\ httpStatus = 403

\* C8: for every API_KEY K, a header that is exactly K or "Bearer " followed
\* by K passes authentication and reaches the handler, on both routes.
C8_KeyAccepted ==
    (pc \notin {"idle", "auth"} /\ Presents(auth_header, API_KEY)) =>
        httpStatus \notin {401, 403}

\* the JSON body has no user_prompt field
NoUserPromptField(d) ==
    \/ d.kind \in {"falsy", "nonobject"}
    \/ d.kind = "object" /\ d.user_prompt = None

\* C9: an authenticated POST to /api/parse-pdf whose body has no user_prompt
\* field is answered 400 and never runs the agent.
C9_NoUserPrompt400 ==
    (Answered("/api/parse-pdf") /\ AuthStatus(auth_header, API_KEY) = 0
     /\ NoUserPromptField(data)) =>
        /\ httpStatus = 400
        /\ NothingRun

\* C10: every error response (400, 401, 403, 500) of the two routes has a
\* body with a `message` field and at least one of `status` and `error`.
C10_ErrorBodyShape ==
    (pc = "responded" /\ httpStatus \in {400, 401, 403, 500}) =>
        /\ "message" \in httpBody
        /\ {"status", "error"} \cap httpBody # {}


----------------------------------------------------------------------------
(* Properties of parse_response, under SpecParse *)

\* text.trim(): the text without its leading and trailing whitespace
Trim(t) ==
    LET solid == { i \in 1 .. Len(t) : ~IsSpace(t[i]) } IN
    IF solid = {} THEN <<>> ELSE SubSeq(t, Min(solid), Max(solid))

Occurs(tokn, t) == \E i \in 1 .. Len(t) : t[i] = tokn

\* C11 as stated: for a text without `Content:` marker the content field is
\* the text with leading and trailing whitespace removed.
C11_FallbackTrimmed ==
    (parsed.done /\ ~Occurs(CONT, text)) => parsed.content = Trim(text)

\* C11 amended: for a text without `Content:` marker the content field is
\* the text itself, whitespace included.
C11_FallbackUntrimmed ==
    (parsed.done /\ ~Occurs(CONT, text)) => parsed.content = text

C11_Witness ==
    /\ parsed.done
    /\ ~Occurs(CONT, text)
    /\ Occurs(SUBJ, text)
    /\ text # Trim(text)
    /\ parsed.content = text

\* the text holds "Subject: S\n\nContent: C" with "Subject:" at position i
\* and the blank line at position j
FrameAt(t, i, j) ==
    /\ i + 2 <= j
    /\ j + 3 <= Len(t)
    /\ t[i] = SUBJ
    /\ t[i + 1] = SP
    /\ t[j] = NL
    /\ t[j + 1] = NL
    /\ t[j + 2] = CONT
    /\ t[j + 3] = SP

FrameS(t, i, j) == SubSeq(t, i + 2, j - 1)

FrameC(t, j) == SubSeq(t, j + 4, Len(t))

Frames(t) == { ij \in (1 .. Len(t)) \X (1 .. Len(t)) : FrameAt(t, ij[1], ij[2]) }

CleanFrame(t, i, j) ==
    /\ \A n \in 1 .. Len(t) : t[n] = CONT => n = j + 2
    /\ \A n \in 1 .. (i - 1) : t[n] # SUBJ

C13_ContentAfterMarker ==
    (parsed.done /\ Occurs(CONT, text)) =>
        LET i == Min({ n \in 1 .. Len(text) : text[n] = CONT }) IN
        parsed.content = Trim(SubSeq(text, i + 1, Len(text)))


----------------------------------------------------------------------------
(* Properties of the loop, continued *)

\* the function-call parts of the current response the scan has met and that
\* have had no result sent for them
Detected ==
    Cardinality({ i \in 1 .. Len(response) :
                     /\ IsFunctionCall(response[i])
                     /\ \/ i < partIdx
                        \/ i = partIdx /\ pc = "send_result" })

\* C14: every tool-call request detected in a response, registered or not,
\* gets exactly one tool result, sent to the model before any other message
\* is sent on the session: a prompt is sent only when no detected request is
\* open, a tool result only when exactly one is.
C14_OneResultPerRequest ==
    [][sends' = sends + 1 =>
          IF toolSends' = toolSends + 1 THEN Detected = 1 ELSE Detected = 0]_vars

\* the answer to the last prompt held function calls, none of them for a
\* registered tool, and it has been scanned to its end
UnregisteredOnlyScanned ==
    /\ agentInvoked
    /\ iteration >= 1
    /\ ~sendFailed
    /\ toolSends = 0
    /\ HasCall(response)
    /\ ~RequestsTool(response)
    /\ pc # "scan"

\* C15: a response whose tool-call request names an unregistered tool is
\* treated as having no actionable call: its text is returned in the same
\* round and nothing more is sent.
C15_UnregisteredIsTerminal ==
    UnregisteredOnlyScanned =>
        /\ outcome = Returned(TextOf(response))
        /\ sends = iteration
        /\ sends = 1

\* C16: in one response only the first tool-call part can be executed; the
\* later ones are ignored, also when the first names an unregistered tool.
C16_OnlyFirstCallExecuted ==
    (toolCalls > toolSends) =>
        \A i \in 1 .. (partIdx - 1) : ~IsFunctionCall(response[i])

\* C17: the user prompt is sent in the first round only; the session never
\* holds more than one user-prompt turn.
C17_PromptSentOnce == promptSends <= 1

\* C18: with max_iterations >= 2, when the answer to a tool result requests
\* the registered tool again, that second call is executed and its result
\* fed back before run_pdf_agent ends.
C18_ChainedRoundTrip ==
    (AgentEnded /\ max_iterations.t = "int" /\ max_iterations.n >= 2
     /\ toolSends = 1 /\ ~sendFailed /\ RequestsTool(response)) =>
        toolCalls >= 2

\* run_pdf_agent returned the sentence "Max iterations reached"
ReturnedSentinel == AgentEnded /\ outcome = Returned(SentinelText)

\* the two cases C19 names
C19_Cases ==
    \/ max_iterations.n <= 0 /\ sends = 0
    \/ /\ max_iterations.n >= 1
       /\ onlyUnregistered
       /\ sends = max_iterations.n
       /\ toolCalls = 0

\* C19 as stated: "Max iterations reached" is returned only if
\* max_iterations <= 0 (no send), or every one of the max_iterations
\* responses held a tool-call part and none for a registered tool (exactly
\* max_iterations sends, no tool executed).
C19_SentinelOnlyWhenExhausted == ReturnedSentinel => C19_Cases

\* C19 amended: "Max iterations reached" is returned only in those two
\* cases or when the text of the model's last response is that sentence.
C19_SentinelExhaustedOrEchoed ==
    ReturnedSentinel =>
        \/ C19_Cases
        \/ sends >= 1 /\ TextOf(response) = SentinelText

C19_Witness ==
    /\ ReturnedSentinel
    /\ max_iterations.n >= 2
    /\ sends = max_iterations.n
    /\ onlyUnregistered
    /\ TextOf(response) # SentinelText

\* C20: when every send and tool execution returns or fails in finite time,
\* an invocation of run_pdf_agent eventually ends, returning or raising, and
\* after that its outcome stays and nothing is sent or executed.
C20_EndsOnce ==
    /\ agentInvoked ~> AgentEnded
    /\ [][AgentEnded => /\ outcome' = outcome
                        /\ sends' = sends
                        /\ toolCalls' = toolCalls]_vars

C20_Witness ==
    /\ AgentEnded
    /\ pc = "responded"
    /\ iteration = DefaultMaxIterations
    /\ sends = DefaultMaxIterations
    /\ outcome = Returned(SentinelText)

====
